---- MODULE Spec2Model ----
(***************************************************************************)
(* Model of the pipeline executor VeExecution (backend/src/ve-execution.mts)*)
(* and of the output codec OutputProcessor (backend/src/proxmoxconftypes.mts)*)
(* One VeExecution object runs an ordered command list; a run suspends only *)
(* while a remote session is in flight (await spawnAsync).                  *)
(***************************************************************************)
EXTENDS Integers, Sequences, FiniteSets, TLC

\* ------------------------------------------------------------------ bounds
MaxSteps == 2
MaxResumes == 1
MaxParses == 2
MaxChunks == 1

\* ------------------------------------------------------- program constants
maxRetriesOffByOne == 3 + 1
maxRetries == 3
ConnExit == 255
\* the exit code spawnAsync reports for an attempt it ended at the timeout
TimeoutExit == 124

\* ------------------------------------------------------------------ values
\* A scope value is a JS primitive: its type tag and its string form String(v).
Val(t, s) == [t |-> t, s |-> s]
Undef == Val("undef", "")
Tok(n) == Val("tok", n)          \* the property string "{{n}}"
Num7 == Val("num", "7")
Str1 == Val("str", "1")
Str2 == Val("str", "2")
NotDefined == Val("str", "NOT_DEFINED")
None == [none |-> TRUE]

EmptyMap == [k \in {} |-> Undef]
Put(m, k, v) == [x \in (DOMAIN m) \cup {k} |-> IF x = k THEN v ELSE m[x]]

\* Canonical enumeration order of the keys of a Map / object.
KeyOrder == <<"a", "b", "x", "vm_id", "used_vm_ids", "id", "value", "default", "0", "1">>

Pair(n, v) == [name |-> n, value |-> v]

\* Array.from(map.entries()).map(([name, value]) => ({name, value}))
MapToPairs(m) ==
  LET F[n \in 0..Len(KeyOrder)] ==
        IF n = 0 THEN <<>>
        ELSE IF KeyOrder[n] \in DOMAIN m
             THEN Append(F[n-1], Pair(KeyOrder[n], m[KeyOrder[n]]))
             ELSE F[n-1]
  IN F[Len(KeyOrder)]

\* for (const p of list) m.set(p.name, p.value)
SetAll(m, ps) ==
  LET F[n \in 0..Len(ps)] ==
        IF n = 0 THEN m ELSE Put(F[n-1], ps[n].name, ps[n].value)
  IN F[Len(ps)]

\* for (const p of list) map.set(p.name, p.value)
PairsToMap(ps) ==
  LET F[n \in 0..Len(ps)] ==
        IF n = 0 THEN EmptyMap ELSE Put(F[n-1], ps[n].name, ps[n].value)
  IN F[Len(ps)]

PairSet(ps) == {ps[n] : n \in 1..Len(ps)}

\* Number.parseInt(String(v), 10); NaN is -1 here
ParseInt(v) ==
  CASE v.s = "7" -> 7
    [] v.s = "1" -> 1
    [] v.s = "2" -> 2
    [] OTHER -> -1

\* !v for a JS primitive
Falsy(v) == v.t = "undef" \/ (v.t = "str" /\ v.s = "") \/ (v.t = "num" /\ v.s = "0")

\* ------------------------------------------------------- variable resolver
\* replaceVars on the one-token string "{{n}}": outputs > inputs > defaults.
ReplaceVars(n, o, inp, d) ==
  IF n \in DOMAIN o THEN Val("str", o[n].s)
  ELSE IF n \in DOMAIN inp THEN Val("str", inp[n].s)
  ELSE IF n \in DOMAIN d THEN Val("str", d[n].s)
  ELSE NotDefined

\* replaceVars on a text that is one token or plain text
ReplaceText(v, o, inp, d) == IF v.t = "tok" THEN ReplaceVars(v.s, o, inp, d) ELSE v

\* replaceVarsWithContext: the override map ctx is looked up first
replaceVarsWithContext(v, ctx, o, inp, d) ==
  IF v.t = "tok" /\ v.s \in DOMAIN ctx THEN Val("str", ctx[v.s].s)
  ELSE ReplaceText(v, o, inp, d)

\* executeOnHost: the payload is substituted against vmctx.data, then against
\* Object.fromEntries(this.outputs)
HostExecCmdOutputsFirst(command, data, o, inp, d) ==
  replaceVarsWithContext(replaceVarsWithContext(command, o, o, inp, d), data, o, inp, d)

HostExecCmd(command, data, o, inp, d) ==
  replaceVarsWithContext(replaceVarsWithContext(command, data, o, inp, d), o, o, inp, d)

\* ------------------------------------------------------------ command list
Cmd(kind, on, skipped, arr, entries) ==
  [kind |-> kind, execute_on |-> on, skipped |-> skipped, arr |-> arr, entries |-> entries]
PEntry(id, v) == [id |-> id, value |-> v]

CmdVe == Cmd("script", "ve", FALSE, FALSE, <<>>)
CmdLxc == Cmd("command", "lxc", FALSE, FALSE, <<>>)
CmdHost == Cmd("command", "host:h1", FALSE, FALSE, <<>>)
CmdNoTarget == Cmd("command", "", FALSE, FALSE, <<>>)
CmdPropsArr == Cmd("properties", "ve", FALSE, TRUE, <<PEntry("a", Tok("x")), PEntry("vm_id", Num7)>>)
CmdPropsOne == Cmd("properties", "ve", FALSE, FALSE, <<PEntry("b", Tok("x"))>>)
CmdSkipped == Cmd("script", "lxc", TRUE, FALSE, <<>>)

\* every step carries exactly one payload: script, command or properties
StepTemplates == {CmdVe, CmdLxc, CmdHost, CmdNoTarget, CmdPropsArr, CmdPropsOne, CmdSkipped}

CommandLists == UNION {[1..n -> StepTemplates] : n \in 0..MaxSteps}


\* ------------------------------------------------------------ output codec
\* the constructor's sshCommand: "ssh" (remote mode) or a local shell (local mode)
VARIABLE sshCommand

\* a value "local:f" naming a readable file f, and the base64 text of its content
LocalF == Val("str", "local:f")
B64F == Val("str", "Zg==")

\* processLocalFileValue reading the file whatever the mode
processLocalFileValueAnyMode(v) ==
  IF v = LocalF THEN B64F ELSE v

\* OutputProcessor.processLocalFileValue; sshCommand is the processor's field
processLocalFileValue(v) ==
  IF v = LocalF /\ sshCommand # "ssh" THEN B64F ELSE v

Rec(nv, k, v, d) == [nv |-> nv, k |-> k, v |-> v, d |-> d]
Out(marker, shape, recs) == [marker |-> marker, shape |-> shape, recs |-> recs]

\* stdout.trim().length === 0
IsBlank(st) == ~st.marker /\ st.shape = "empty"

\* the loop over id records with a default written to outputs while outputs
\* has no entry for the id, and to defaults once it has
ApplyIdRecsDefaultFills(recs, o, d) ==
  LET F[n \in 0..Len(recs)] ==
        IF n = 0 THEN [o |-> o, d |-> d]
        ELSE LET p == F[n-1]
                 r == recs[n]
                 po == IF r.v # Undef THEN Put(p.o, r.k, processLocalFileValue(r.v)) ELSE p.o
             IN [o |-> IF r.d # Undef /\ r.k \notin DOMAIN po THEN Put(po, r.k, r.d) ELSE po,
                 d |-> IF r.d # Undef /\ r.k \in DOMAIN po THEN Put(p.d, r.k, r.d) ELSE p.d]
  IN F[Len(recs)]

\* the loop over an array of {id, value, default} records (or a single one)
ApplyIdRecs(recs, o, d) ==
  LET F[n \in 0..Len(recs)] ==
        IF n = 0 THEN [o |-> o, d |-> d]
        ELSE LET p == F[n-1]
                 r == recs[n]
             IN [o |-> IF r.v # Undef THEN Put(p.o, r.k, processLocalFileValue(r.v)) ELSE p.o,
                 d |-> IF r.d # Undef THEN Put(p.d, r.k, r.d) ELSE p.d]
  IN F[Len(recs)]

\* the loop over an array of {name, value} records
ApplyNvRecs(recs, o) ==
  LET F[n \in 0..Len(recs)] ==
        IF n = 0 THEN o ELSE Put(F[n-1], recs[n].k, processLocalFileValue(recs[n].v))
  IN F[Len(recs)]

\* outputsRaw / outputsRawResult: undefined, or a list of {name, value}
NoRaw == [set |-> FALSE, list |-> <<>>]
Raw(l) == [set |-> TRUE, list |-> l]

NvRaw(recs) == Raw([n \in 1..Len(recs) |-> Pair(recs[n].k, processLocalFileValue(recs[n].v))])

\* OutputProcessor.parseAndUpdateOutputs; rr is the processor's outputsRawResult
parseAndUpdateOutputs(st, o, d, rr) ==
  LET same == [threw |-> FALSE, o |-> o, d |-> d, rr |-> rr]
  IN IF IsBlank(st) THEN same
     ELSE IF st.shape = "empty" THEN same
     ELSE IF st.shape = "malformed" THEN [same EXCEPT !.threw = TRUE]
     ELSE IF st.shape = "array" /\ Len(st.recs) > 0 /\ st.recs[1].nv
          THEN [threw |-> FALSE, o |-> ApplyNvRecs(st.recs, o), d |-> d, rr |-> NvRaw(st.recs)]
     ELSE LET r == ApplyIdRecs(st.recs, o, d)
          IN [threw |-> FALSE, o |-> r.o, d |-> r.d, rr |-> rr]

\* --------------------------------------------------------------- events
NoIndex == -1
\* out is the stdout text an event carries as its result ("stdout"), else NoOut
NoOut == Out(FALSE, "none", <<>>)
\* stderr texts, as the sequence of their parts: what the session wrote to
\* stderr, the message of the Error thrown for a non-zero exit (it ends with
\* that stderr), the message thrown after a parse failure, any other message,
\* the description of a skipped step
Captured == <<"stderr">>
\* the message thrown for a non-zero exit without the stderr text
ExitMessageBare == <<"failed with exit code">>
ExitMessage == <<"failed with exit code", "stderr">>
ParseMessage == <<"An error occurred during command execution.">>
OtherMessage == <<"message">>
Description == <<"description">>
\* the runner's msg carries stderr: structuredClone(stderr)
Ev(step, command, exitCode, idx, result, src) ==
  [step |-> step, command |-> command, exitCode |-> exitCode, index |-> idx,
   partial |-> FALSE, result |-> result, src |-> src, out |-> NoOut,
   stderr |-> IF src = "runner" THEN Captured ELSE <<>>]
\* msg.result = structuredClone(stdout)
EvStdout(step, command, exitCode, idx, src, st) ==
  [Ev(step, command, exitCode, idx, "stdout", src) EXCEPT !.out = st]

\* --------------------------------------------- runner: after the retry loop
\* runOnVeHost from "const stdout = proc.stdout" to its return or throw
runOnVeHostFinish(st, exit, o, d, rr, raw, idx, step, name) ==
  IF IsBlank(st)
  THEN IF exit = 0
       THEN [threw |-> FALSE, o |-> o, d |-> d, rr |-> rr, raw |-> raw,
             evs |-> <<Ev(step, name, 0, idx, "OK", "runner")>>, index |-> idx + 1, result |-> "OK",
             thrown |-> <<>>]
       ELSE [threw |-> TRUE, o |-> o, d |-> d, rr |-> rr, raw |-> raw,
             evs |-> <<Ev(step, name, exit, idx, "ERROR", "runner")>>, index |-> idx, result |-> "ERROR",
             thrown |-> ExitMessage]
  ELSE LET p == parseAndUpdateOutputs(st, o, d, rr)
           raw2 == IF p.rr.set THEN p.rr ELSE raw
       IN IF p.threw
          THEN [threw |-> TRUE, o |-> o, d |-> d, rr |-> rr, raw |-> raw,
                evs |-> <<EvStdout(step, name, -1, idx, "runner", st)>>, index |-> idx, result |-> "stdout",
                thrown |-> ParseMessage]
          ELSE IF exit # 0
          THEN [threw |-> TRUE, o |-> p.o, d |-> p.d, rr |-> p.rr, raw |-> raw2,
                evs |-> <<>>, index |-> idx, result |-> "stdout",
                thrown |-> ExitMessage]
          ELSE [threw |-> FALSE, o |-> p.o, d |-> p.d, rr |-> p.rr, raw |-> raw2,
                evs |-> <<EvStdout(step, name, 0, idx, "runner", st)>>, index |-> idx + 1, result |-> "stdout",
                thrown |-> <<>>]

\* ----------------------------------------- run(): fallback on lastMsg.result
\* Object.entries(JSON.parse(m)) for the text of a well-formed stdout
JsonEntries(st) ==
  IF st.shape = "single"
  THEN LET r == st.recs[1]
       IN <<Pair("id", Val("str", r.k))>>
          \o (IF r.v # Undef THEN <<Pair("value", r.v)>> ELSE <<>>)
          \o (IF r.d # Undef THEN <<Pair("default", r.d)>> ELSE <<>>)
  ELSE [n \in 1..Len(st.recs) |-> Pair(IF n = 1 THEN "0" ELSE "1", Val("obj", "record"))]

\* lastOut is None when lastMsg is undefined or its result is not JSON text
Fallback(o, raw, lastOut) ==
  IF DOMAIN o = {} /\ lastOut # None
  THEN [o |-> PairsToMap(JsonEntries(lastOut)), raw |-> Raw(JsonEntries(lastOut))]
  ELSE [o |-> o, raw |-> raw]

\* the text of lastMsg.result parses as JSON: no marker line, a JSON body
LastOut(res, st) ==
  IF res.result = "stdout" /\ ~st.marker /\ st.shape \in {"single", "array"} THEN st ELSE None

\* ------------------------------------------------------------- checkpoint
NoVmId == -2
Checkpoint(last, inp, o, d, raw) ==
  [vm_id |-> IF "vm_id" \in DOMAIN o THEN ParseInt(o["vm_id"]) ELSE NoVmId,
   lastSuccessfull |-> last,
   inputs |-> MapToPairs(inp),
   outputs |-> IF raw.set THEN raw.list ELSE MapToPairs(o),
   defaults |-> MapToPairs(d)]

\* ---------------------------------------------------------- properties step
\* one {id, value} entry of a properties payload
PropValue(e, o, inp, d) ==
  IF e.value.t = "tok" THEN ReplaceVars(e.value.s, o, inp, d) ELSE e.value

PropsArray(entries, o, inp, d) ==
  LET F[n \in 0..Len(entries)] ==
        IF n = 0 THEN o
        ELSE LET v == PropValue(entries[n], F[n-1], inp, d)
             IN IF v = NotDefined THEN F[n-1]
                ELSE IF v.t \in {"str", "num", "bool"} THEN Put(F[n-1], entries[n].id, v)
                ELSE F[n-1]
  IN F[Len(entries)]

\* the ids whose value resolves to NOT_DEFINED while the payload is processed
NotDefinedIds(c, o, inp, d) ==
  {c.entries[n].id : n \in {m \in 1..Len(c.entries) :
      PropValue(c.entries[m],
                IF c.arr THEN PropsArray(SubSeq(c.entries, 1, m - 1), o, inp, d) ELSE o,
                inp, d) = NotDefined}}

\* emitted is FALSE where the single-object branch leaves by "continue"
PropsEffect(cmd, o, inp, d) ==
  IF cmd.arr THEN [o |-> PropsArray(cmd.entries, o, inp, d), emitted |-> TRUE]
  ELSE LET v == PropValue(cmd.entries[1], o, inp, d)
       IN IF v = NotDefined THEN [o |-> o, emitted |-> FALSE]
          ELSE IF v.t \in {"str", "num", "bool"}
               THEN [o |-> Put(o, cmd.entries[1].id, v), emitted |-> TRUE]
               ELSE [o |-> o, emitted |-> TRUE]

\* ------------------------------------------------------------ lxc target
\* the vm_id selection of the "lxc" case; Undef when none is usable
LxcVmId(inp, o) ==
  IF "vm_id" \in DOMAIN inp /\ inp["vm_id"].t \in {"str", "num"} THEN inp["vm_id"]
  ELSE IF "vm_id" \in DOMAIN o /\ o["vm_id"].t \in {"str", "num"} THEN o["vm_id"]
  ELSE Undef

\* ------------------------------------------------------- host discovery
HostRec(h, pve, vmid) == [hostname |-> h, pve |-> pve, vmid |-> vmid]
\* JSON.parse of the used_vm_ids text: the listings the probe script prints
Listing(s) ==
  CASE s = "L_match" -> [valid |-> TRUE, recs |-> {HostRec("h1", "p1", 7), HostRec("h2", "p1", 8)}]
    [] s = "L_pve" -> [valid |-> TRUE, recs |-> {HostRec("h1", "p2", 7)}]
    [] s = "L_vmid" -> [valid |-> TRUE, recs |-> {HostRec("h1", "p1", 8)}]
    [] s = "L_absent" -> [valid |-> TRUE, recs |-> {HostRec("h2", "p1", 8)}]
    [] OTHER -> [valid |-> FALSE, recs |-> {}]

Hostname(on) == IF on = "host:h1" THEN "h1" ELSE ""
IsHostTarget(on) == on = "host:h1"

\* executeOnHost between the probe and runOnLxc: TRUE when the payload may run
HostMatch(hostname, o, reg) ==
  /\ "used_vm_ids" \in DOMAIN o
  /\ o["used_vm_ids"].s # ""
  /\ LET l == Listing(o["used_vm_ids"].s)
     IN /\ l.valid
        /\ \E f \in l.recs : f.hostname = hostname
        /\ reg # None
        /\ \A f \in l.recs : f.hostname = hostname => (reg.pve = f.pve /\ reg.vmid = f.vmid)


\* ------------------------------------------------------------------ inputs
OutBlank == Out(FALSE, "empty", <<>>)
OutMarkerOnly == Out(TRUE, "empty", <<>>)
OutBad == Out(TRUE, "malformed", <<>>)
OutArray == Out(TRUE, "array", <<Rec(FALSE, "vm_id", Num7, Undef), Rec(FALSE, "x", Undef, Str2)>>)
OutNv == Out(TRUE, "array", <<Rec(TRUE, "b", Str2, Undef)>>)
OutBare == Out(FALSE, "single", <<Rec(FALSE, "a", Undef, Str1)>>)
OutStatus == Out(TRUE, "array", <<Rec(FALSE, "a", Str1, Undef)>>)
Stdouts == {OutBlank, OutMarkerOnly, OutBad, OutArray, OutNv, OutBare, OutStatus}

\* what the last attempt of a runner call may end with: any stdout with exit 0,
\* a script failure with or without output, a connection failure or a timeout
\* without output
Attempt(e, st) == [exit |-> e, stdout |-> st]
Attempts ==
  {Attempt(0, st) : st \in Stdouts}
    \cup {Attempt(1, st) : st \in {OutBlank, OutArray, OutNv}}
    \cup {Attempt(ConnExit, OutBlank), Attempt(TimeoutExit, OutBlank)}

OutUsed(l) == Out(TRUE, "single", <<Rec(FALSE, "used_vm_ids", Val("str", l), Undef)>>)
ProbeStdouts == {OutBlank} \cup {OutUsed(l) : l \in {"L_match", "L_pve", "L_absent", "L_bad"}}
ProbeAttempts ==
  {Attempt(0, st) : st \in ProbeStdouts}
    \cup {Attempt(1, OutBlank), Attempt(ConnExit, OutBlank), Attempt(TimeoutExit, OutBlank)}

InputMaps == {EmptyMap, Put(EmptyMap, "vm_id", Num7)}
DefaultMaps == {EmptyMap, Put(EmptyMap, "x", Str2)}
Registries == {None, [pve |-> "p1", vmid |-> 7]}

\* ------------------------------------------------------------------- state
VARIABLES
  commands,          \* this.commands
  ctorInputs,        \* the inputs handed to the constructor
  ctorDefaults,      \* the defaults handed to the constructor
  registry,          \* StorageContext: the VMContext recorded for hostname h1
  inputs, outputs, defaults,
  outputsRaw,        \* this.outputsRaw
  outputsRawResult,  \* outputProcessor.outputsRawResult
  pc,                \* "idle", "loop", "spawn" (session in flight), "exit", "done"
  i,                 \* loop index of run()
  phase,             \* which runner call is in flight: "ve", "lxc", "probe", "payload"
  retryCount,
  msgIndex,          \* run()'s local event counter
  index,             \* the module-level event counter
  events,            \* "message" events emitted by the current run, in order
  finished,          \* number of "finished" signals emitted by the current run
  rcRestartInfo,     \* the checkpoint run() will return / has returned
  restartInfo,       \* the argument of the current run()
  resumes,           \* number of run(checkpoint) calls so far
  \* history variables
  stepStart,         \* outputs and defaults when step i was entered
  ref, refTmp,       \* scopes of the uninterrupted run over the same step results
  refDone, refValid,
  ckptScopes,        \* the three scopes when rcRestartInfo was computed
  ckptKind,          \* "none", "success", "failure"
  spawnsInStep, spawnsInCall, lastExit,
  lastStdout,        \* the stdout of the attempt that ended last
  inFlight,          \* remote sessions spawned and not yet exited
  spawnedSteps,      \* steps of the current run that spawned a session
  stopKind, stopStep, \* why and where the loop was left early
  anyFailed,         \* a step of the current run failed
  rejected,          \* the promise of the current run() was rejected
  veContext,         \* the constructor's veContext: None (null) or a connection context
  rv,                \* one substitution: its text, the scopes, the resulting text
  cx,                \* one OutputProcessor: its stdout, its maps before and after parsing
  lx,                \* one "lxc" dispatch: the scopes, the id handed over, the payload
  duo,               \* two runs of one process: the shared counter, their events
  mon,               \* one ProcessMonitor: its message groups and the last batch
  ca                 \* one CreateApplication component

auxVars == <<lx, duo, mon, ca>>
confVars == <<commands, ctorInputs, ctorDefaults, registry, sshCommand, veContext, rv, cx, auxVars>>
scopeVars == <<inputs, outputs, defaults, outputsRaw, outputsRawResult>>
ctlVars == <<pc, i, phase, retryCount>>
evVars == <<msgIndex, index, events, finished>>
ckptVars == <<rcRestartInfo, restartInfo, resumes, ckptScopes, ckptKind>>
refVars == <<ref, refTmp, refDone, refValid>>
spawnVars == <<spawnsInStep, spawnsInCall, lastExit, lastStdout, spawnedSteps, inFlight>>
stopVars == <<stopKind, stopStep, anyFailed, rejected>>
vars == <<confVars, scopeVars, ctlVars, evVars, ckptVars, refVars, spawnVars, stopVars, stepStart>>

NoExit == -2
Scopes(o, d) == [o |-> o, d |-> d]
Snap(inp, o, d) == [inputs |-> inp, outputs |-> o, defaults |-> d]
NoSnap == Snap(EmptyMap, EmptyMap, EmptyMap)

\* a substitution: op is "none" before it ran, else the entry point used
Subst(text, ctx, o, inp, d, op, result) ==
  [text |-> text, ctx |-> ctx, o |-> o, inp |-> inp, d |-> d, op |-> op, result |-> result]
NoSubst == Subst(Undef, EmptyMap, EmptyMap, EmptyMap, EmptyMap, "none", Undef)

\* a processor: before, first and now are its outputs and defaults before any
\* parse, after the first parse and now; applied counts the parses
Parse(st, sc, first, now, rr, applied, threw) ==
  [st |-> st, before |-> sc, first |-> first, now |-> now, rr |-> rr,
   applied |-> applied, threw |-> threw]
NoParse ==
  Parse(NoOut, Scopes(EmptyMap, EmptyMap), Scopes(EmptyMap, EmptyMap),
        Scopes(EmptyMap, EmptyMap), NoRaw, 0, FALSE)

\* no object of the kind exists
AuxIdle == lx = None /\ duo = None /\ mon = None /\ ca = None

\* an IVEContext
VeCtx == [host |-> "ve1", port |-> 22]

\* new VeExecution(commands, inputs, veContext, defaults, sshCommand) with
\* sshCommand from sshs and veContext from ctxs
InitRun(sshs, ctxs) ==
  /\ rv = NoSubst
  /\ cx = NoParse
  /\ AuxIdle
  /\ sshCommand \in sshs
  /\ veContext \in ctxs
  /\ commands \in CommandLists
  /\ ctorInputs \in InputMaps
  /\ ctorDefaults \in DefaultMaps
  /\ registry \in Registries
  \* the registry is only read by executeOnHost, i.e. by host:<name> steps
  /\ registry # None => \E k \in 1..Len(commands) : IsHostTarget(commands[k].execute_on)
  \* inputs are read where an "lxc" step picks its vm_id, defaults where a
  \* properties step resolves its tokens
  /\ ctorInputs # EmptyMap => \E k \in 1..Len(commands) : commands[k] = CmdLxc
  /\ ctorDefaults # EmptyMap => \E k \in 1..Len(commands) : commands[k].kind = "properties"
  /\ inputs = ctorInputs
  /\ outputs = EmptyMap
  /\ defaults = ctorDefaults
  /\ outputsRaw = NoRaw
  /\ outputsRawResult = NoRaw
  /\ pc = "idle"
  /\ i = 0
  /\ phase = "none"
  /\ retryCount = 0
  /\ msgIndex = 0
  /\ index = 0
  /\ events = <<>>
  /\ finished = 0
  /\ rcRestartInfo = None
  /\ restartInfo = None
  /\ resumes = 0
  /\ stepStart = Scopes(EmptyMap, ctorDefaults)
  /\ ref = Scopes(EmptyMap, ctorDefaults)
  /\ refTmp = Scopes(EmptyMap, ctorDefaults)
  /\ refDone = 0
  /\ refValid = TRUE
  /\ ckptScopes = NoSnap
  /\ ckptKind = "none"
  /\ spawnsInStep = 0
  /\ spawnsInCall = 0
  /\ lastExit = NoExit
  /\ lastStdout = NoOut
  /\ inFlight = 0
  /\ spawnedSteps = {}
  /\ stopKind = "none"
  /\ stopStep = -1
  /\ anyFailed = FALSE
  /\ rejected = FALSE

\* remote mode with a connection context
Init == InitRun({"ssh"}, {VeCtx})


\* ----------------------------------------------------------------- actions
N == Len(commands)
cmd == commands[i + 1]
AtStep == pc = "loop" /\ i < N
Dispatchable == AtStep /\ ~cmd.skipped /\ cmd.kind \in {"script", "command"}
EvRun(code) == Ev(i, "step", code, msgIndex, "null", "run")
\* a failure event of run(): stderr is the message of what was thrown
EvFail(msg) == [EvRun(-1) EXCEPT !.stderr = msg]

\* new VeExecution(...).run() without a checkpoint
RunFresh ==
  /\ pc = "idle"
  /\ pc' = "loop"
  /\ i' = 0
  /\ UNCHANGED <<phase, retryCount, confVars, scopeVars, evVars, ckptVars, refVars, spawnVars, stopVars, stepStart>>

\* run(restartInfo), "Load previous state", without the clear()
LoadScopeNoClear(own, list) == SetAll(own, list)

\* run(restartInfo), "Load previous state": own.clear(), then one set per entry
LoadScope(own, list) == SetAll([k \in {} |-> own[k]], list)

\* run(restartInfo) on a new VeExecution, with the checkpoint the last run
\* returned; the new object is constructed with any inputs and defaults
RunResume ==
  /\ pc = "done"
  /\ ~rejected
  /\ rcRestartInfo # None
  /\ resumes < MaxResumes
  /\ restartInfo' = rcRestartInfo
  /\ \E ci \in InputMaps, cd \in DefaultMaps :
       /\ inputs' = LoadScope(ci, rcRestartInfo.inputs)
       /\ outputs' = LoadScope(EmptyMap, rcRestartInfo.outputs)
       /\ defaults' = LoadScope(cd, rcRestartInfo.defaults)
  /\ outputsRaw' = NoRaw
  /\ outputsRawResult' = NoRaw
  /\ i' = rcRestartInfo.lastSuccessfull + 1
  /\ pc' = "loop"
  /\ msgIndex' = 0
  /\ events' = <<>>
  /\ finished' = 0
  /\ rcRestartInfo' = None
  /\ resumes' = resumes + 1
  /\ ckptScopes' = NoSnap
  /\ ckptKind' = "none"
  /\ stepStart' = Scopes(outputs', defaults')
  /\ refValid' = (refValid /\ rcRestartInfo.lastSuccessfull + 1 = refDone)
  /\ spawnsInStep' = 0
  /\ spawnsInCall' = 0
  /\ lastExit' = NoExit
  /\ lastStdout' = NoOut
  /\ spawnedSteps' = {}
  /\ stopKind' = "none"
  /\ stopStep' = -1
  /\ anyFailed' = FALSE
  /\ rejected' = FALSE
  /\ UNCHANGED <<confVars, phase, retryCount, index, ref, refTmp, refDone, inFlight>>

\* a skipped step passed over without an event
StepSkippedSilent ==
  /\ AtStep
  /\ cmd.skipped
  /\ i' = i + 1
  /\ stepStart' = Scopes(outputs, defaults)
  /\ refDone' = refDone + 1
  /\ UNCHANGED <<pc, phase, retryCount, confVars, scopeVars, evVars, ckptVars,
                 ref, refTmp, refValid, spawnVars, stopVars>>

\* a step whose name contains "(skipped)"
StepSkipped ==
  /\ AtStep
  /\ cmd.skipped
  /\ events' = Append(events, [EvRun(0) EXCEPT !.stderr = Description])
  /\ msgIndex' = msgIndex + 1
  /\ i' = i + 1
  /\ stepStart' = Scopes(outputs, defaults)
  /\ refDone' = refDone + 1
  /\ UNCHANGED <<pc, phase, retryCount, confVars, scopeVars, index, finished, ckptVars,
                 ref, refTmp, refValid, spawnVars, stopVars>>

\* a properties step
StepProperties ==
  /\ AtStep
  /\ ~cmd.skipped
  /\ cmd.kind = "properties"
  /\ LET eff == PropsEffect(cmd, outputs, inputs, defaults)
     IN /\ outputs' = eff.o
        /\ events' = IF eff.emitted THEN Append(events, EvRun(0)) ELSE events
        /\ msgIndex' = IF eff.emitted THEN msgIndex + 1 ELSE msgIndex
  /\ i' = i + 1
  /\ stepStart' = Scopes(outputs, defaults)
  /\ ref' = IF refValid THEN Scopes(PropsEffect(cmd, ref.o, inputs, ref.d).o, ref.d) ELSE ref
  /\ refDone' = refDone + 1
  /\ UNCHANGED <<pc, phase, retryCount, confVars, inputs, defaults, outputsRaw, outputsRawResult,
                 index, finished, ckptVars, refTmp, refValid, spawnVars, stopVars>>

\* a properties step whose processing throws at entry n + 1: the inner catch
\* emits a failure event and continues with the next step
StepPropertiesThrows ==
  /\ AtStep
  /\ ~cmd.skipped
  /\ cmd.kind = "properties"
  /\ \E n \in 0..(Len(cmd.entries) - 1) :
       outputs' = IF cmd.arr THEN PropsArray(SubSeq(cmd.entries, 1, n), outputs, inputs, defaults)
                  ELSE outputs
  /\ events' = Append(events, EvFail(OtherMessage))
  /\ msgIndex' = msgIndex + 1
  /\ i' = i + 1
  /\ stepStart' = Scopes(outputs, defaults)
  /\ refValid' = FALSE
  /\ anyFailed' = TRUE
  /\ UNCHANGED rejected
  /\ UNCHANGED <<pc, phase, retryCount, confVars, inputs, defaults, outputsRaw, outputsRawResult,
                 index, finished, ckptVars, ref, refTmp, refDone, spawnVars, stopKind, stopStep>>

\* the runner call is over (or none was made): its locals are gone;
\* e is the exit code of its last attempt
RunnerEnds(e) ==
  /\ phase' = "none"
  /\ retryCount' = 0
  /\ spawnsInStep' = 0
  /\ spawnsInCall' = 0
  /\ lastExit' = e
  /\ inFlight' = IF pc = "spawn" THEN inFlight - 1 ELSE inFlight
  /\ UNCHANGED spawnedSteps

\* the catch of run() with the checkpoint one step too far back, at i - 2
CatchOuterStepBack(res, kind) ==
  /\ outputs' = res.o
  /\ defaults' = res.d
  /\ outputsRawResult' = res.rr
  /\ outputsRaw' = res.raw
  /\ events' = Append(events \o res.evs, EvFail(IF res.threw THEN res.thrown ELSE OtherMessage))
  /\ msgIndex' = msgIndex + 1
  /\ index' = res.index
  /\ rcRestartInfo' = Checkpoint(i - 2, inputs, res.o, res.d, res.raw)
  /\ ckptScopes' = Snap(inputs, res.o, res.d)
  /\ ckptKind' = "failure"
  /\ pc' = "exit"
  /\ stopKind' = kind
  /\ stopStep' = i
  /\ anyFailed' = TRUE
  /\ UNCHANGED rejected
  /\ UNCHANGED <<i, confVars, inputs, finished, restartInfo, resumes, refVars>>

\* the catch of run(): failure event, checkpoint at i - 1, leave the loop
CatchOuter(res, kind) ==
  /\ outputs' = res.o
  /\ defaults' = res.d
  /\ outputsRawResult' = res.rr
  /\ outputsRaw' = res.raw
  /\ events' = Append(events \o res.evs, EvFail(IF res.threw THEN res.thrown ELSE OtherMessage))
  /\ msgIndex' = msgIndex + 1
  /\ index' = res.index
  /\ rcRestartInfo' = Checkpoint(i - 1, inputs, res.o, res.d, res.raw)
  /\ ckptScopes' = Snap(inputs, res.o, res.d)
  /\ ckptKind' = "failure"
  /\ pc' = "exit"
  /\ stopKind' = kind
  /\ stopStep' = i
  /\ anyFailed' = TRUE
  /\ UNCHANGED rejected
  /\ UNCHANGED <<i, confVars, inputs, finished, restartInfo, resumes, refVars>>

\* the scopes and counters as they are when nothing ran
Unchanged == [threw |-> TRUE, o |-> outputs, d |-> defaults, rr |-> outputsRawResult,
              raw |-> outputsRaw, evs |-> <<>>, index |-> index, result |-> "null",
              thrown |-> OtherMessage]

\* fs.readFileSync(cmd.script) throws
StepScriptReadFails ==
  /\ Dispatchable
  /\ cmd.kind = "script"
  /\ stepStart' = Scopes(outputs, defaults)
  /\ CatchOuter(Unchanged, "read")
  /\ RunnerEnds(NoExit)
  /\ lastStdout' = NoOut

\* "break outerloop" after a fatal event, with no checkpoint computed
BreakOuter(res, kind) ==
  /\ outputs' = res.o
  /\ defaults' = res.d
  /\ outputsRawResult' = res.rr
  /\ outputsRaw' = res.raw
  /\ events' = Append(events \o res.evs, EvFail(IF res.threw THEN res.thrown ELSE OtherMessage))
  /\ msgIndex' = msgIndex + 1
  /\ index' = res.index
  /\ pc' = "exit"
  /\ stopKind' = kind
  /\ stopStep' = i
  /\ anyFailed' = TRUE
  /\ UNCHANGED rejected
  /\ UNCHANGED <<i, confVars, inputs, finished, ckptVars, refVars>>

\* case "lxc" with no usable vm_id
StepLxcNoVmId ==
  /\ Dispatchable
  /\ cmd.execute_on = "lxc"
  /\ Falsy(LxcVmId(inputs, outputs))
  /\ stepStart' = Scopes(outputs, defaults)
  /\ BreakOuter(Unchanged, "novmid")
  /\ RunnerEnds(NoExit)
  /\ lastStdout' = NoOut

\* default case, execute_on not of the form host:<name>
StepNoTarget ==
  /\ Dispatchable
  /\ cmd.execute_on \notin {"lxc", "ve"}
  /\ ~IsHostTarget(cmd.execute_on)
  /\ stepStart' = Scopes(outputs, defaults)
  /\ BreakOuter(Unchanged, "notarget")
  /\ RunnerEnds(NoExit)
  /\ lastStdout' = NoOut

\* runOnVeHost throws "SSH parameters not set" before any session is spawned
StepNoContext ==
  /\ Dispatchable
  /\ cmd.execute_on \in {"ve", "lxc"} \/ IsHostTarget(cmd.execute_on)
  /\ cmd.execute_on = "lxc" => ~Falsy(LxcVmId(inputs, outputs))
  /\ sshCommand = "ssh"
  /\ veContext = None
  /\ stepStart' = Scopes(outputs, defaults)
  /\ IF IsHostTarget(cmd.execute_on)
     THEN BreakOuter(Unchanged, "nocontext")
     ELSE CatchOuter(Unchanged, "nocontext")
  /\ RunnerEnds(NoExit)
  /\ lastStdout' = NoOut

\* runOnVeHost gets past "if (!this.veContext) throw"
HasContext == sshCommand # "ssh" \/ veContext # None

\* the first spawnAsync of a runner call made from the loop
FirstSpawn(ph) ==
  /\ HasContext
  /\ pc' = "spawn"
  /\ phase' = ph
  /\ retryCount' = 0
  /\ spawnsInStep' = 1
  /\ spawnsInCall' = 1
  /\ lastExit' = NoExit
  /\ lastStdout' = NoOut
  /\ inFlight' = inFlight + 1
  /\ spawnedSteps' = spawnedSteps \cup {i}
  /\ stepStart' = Scopes(outputs, defaults)
  /\ refTmp' = ref
  /\ UNCHANGED <<i, confVars, scopeVars, evVars, ckptVars, ref, refDone, refValid, stopVars>>

\* the "lxc" case without the vm_id check
DispatchLxcUnchecked ==
  /\ Dispatchable
  /\ cmd.execute_on = "lxc"
  /\ FirstSpawn("lxc")

DispatchLxc ==
  /\ Dispatchable
  /\ cmd.execute_on = "lxc"
  /\ ~Falsy(LxcVmId(inputs, outputs))
  /\ FirstSpawn("lxc")

\* the "ve" case with the runner call not awaited
DispatchVeNoAwait ==
  /\ Dispatchable
  /\ cmd.execute_on = "ve"
  /\ inFlight' = inFlight + 1
  /\ spawnedSteps' = spawnedSteps \cup {i}
  /\ i' = i + 1
  /\ UNCHANGED <<pc, phase, retryCount, confVars, scopeVars, evVars, ckptVars, refVars,
                 spawnsInStep, spawnsInCall, lastExit, lastStdout, stopVars, stepStart>>

DispatchVe ==
  /\ Dispatchable
  /\ cmd.execute_on = "ve"
  /\ FirstSpawn("ve")

\* executeOnHost: the probe write-vmids-json.sh
DispatchHost ==
  /\ Dispatchable
  /\ IsHostTarget(cmd.execute_on)
  /\ FirstSpawn("probe")

\* an attempt ended at its timeout is spawned again like a connection failure
SpawnRetryOnTimeout ==
  /\ pc = "spawn"
  /\ retryCount + 1 < maxRetries
  /\ retryCount' = retryCount + 1
  /\ spawnsInStep' = spawnsInStep + 1
  /\ spawnsInCall' = spawnsInCall + 1
  /\ lastExit' = TimeoutExit
  /\ lastStdout' = OutBlank
  /\ inFlight' = (inFlight - 1) + 1
  /\ UNCHANGED <<pc, i, phase, confVars, scopeVars, evVars, ckptVars, refVars, spawnedSteps,
                 stopVars, stepStart>>

\* an attempt exits 255 with attempts left: wait 3s and spawn again
SpawnRetry ==
  /\ pc = "spawn"
  /\ retryCount + 1 < maxRetries
  /\ retryCount' = retryCount + 1
  /\ spawnsInStep' = spawnsInStep + 1
  /\ spawnsInCall' = spawnsInCall + 1
  /\ lastExit' = ConnExit
  /\ lastStdout' = OutBlank
  /\ inFlight' = (inFlight - 1) + 1
  /\ UNCHANGED <<pc, i, phase, confVars, scopeVars, evVars, ckptVars, refVars, spawnedSteps,
                 stopVars, stepStart>>

\* every exit code ends the retry loop, 255 on the first attempt included
LastAttemptNoRetry(e) == e \in {0, 1, ConnExit, TimeoutExit}

\* exit code e ends the retry loop
LastAttempt(e) == e = ConnExit => retryCount + 1 >= maxRetries

FailKind(e) == IF e # 0 THEN "exit" ELSE "parse"

\* a successful step that also copies a vm_id it printed into inputs
StepSucceedsKeepsVmId(o2, d2, rr2, raw2, evs, idx2, newRef) ==
  /\ outputs' = o2
  /\ defaults' = d2
  /\ outputsRawResult' = rr2
  /\ outputsRaw' = raw2
  /\ inputs' = IF "vm_id" \in DOMAIN o2 THEN Put(inputs, "vm_id", o2["vm_id"]) ELSE inputs
  /\ events' = events \o evs
  /\ index' = idx2
  /\ rcRestartInfo' = Checkpoint(i, inputs', o2, d2, raw2)
  /\ ckptScopes' = Snap(inputs', o2, d2)
  /\ ckptKind' = "success"
  /\ i' = i + 1
  /\ pc' = "loop"
  /\ ref' = IF refValid THEN newRef ELSE ref
  /\ refDone' = refDone + 1
  /\ UNCHANGED <<confVars, msgIndex, finished, restartInfo, resumes,
                 refTmp, refValid, stopVars, stepStart>>

\* the step succeeded: checkpoint at i, next iteration
StepSucceeds(o2, d2, rr2, raw2, evs, idx2, newRef) ==
  /\ outputs' = o2
  /\ defaults' = d2
  /\ outputsRawResult' = rr2
  /\ outputsRaw' = raw2
  /\ events' = events \o evs
  /\ index' = idx2
  /\ rcRestartInfo' = Checkpoint(i, inputs, o2, d2, raw2)
  /\ ckptScopes' = Snap(inputs, o2, d2)
  /\ ckptKind' = "success"
  /\ i' = i + 1
  /\ pc' = "loop"
  /\ ref' = IF refValid THEN newRef ELSE ref
  /\ refDone' = refDone + 1
  /\ UNCHANGED <<confVars, inputs, msgIndex, finished, restartInfo, resumes,
                 refTmp, refValid, stopVars, stepStart>>

\* the same runner result applied to the scopes of the uninterrupted run
RefRunner(st, e, r) == runOnVeHostFinish(st, e, r.o, r.d, NoRaw, NoRaw, 0, 0, "step")

\* case "ve": runOnVeHost returns or throws
FinishVe ==
  /\ pc = "spawn"
  /\ phase = "ve"
  /\ \E a \in Attempts :
       /\ LastAttempt(a.exit)
       /\ lastStdout' = a.stdout
       /\ LET e == a.exit
              st == a.stdout
              res == runOnVeHostFinish(st, e, outputs, defaults, outputsRawResult, outputsRaw, index, i, "step")
              fb == Fallback(res.o, res.raw, LastOut(res, st))
              rres == RefRunner(st, e, ref)
              rfb == Fallback(rres.o, NoRaw, LastOut(rres, st))
          IN IF res.threw
             THEN CatchOuter(res, FailKind(e)) /\ RunnerEnds(e) /\ UNCHANGED stepStart
             ELSE StepSucceeds(fb.o, res.d, res.rr, fb.raw, res.evs, res.index, Scopes(rfb.o, rres.d)) /\ RunnerEnds(e)

\* case "lxc": runOnLxc returns or throws
FinishLxc ==
  /\ pc = "spawn"
  /\ phase = "lxc"
  /\ \E a \in Attempts :
       /\ LastAttempt(a.exit)
       /\ lastStdout' = a.stdout
       /\ LET e == a.exit
              st == a.stdout
              res == runOnVeHostFinish(st, e, outputs, defaults, outputsRawResult, outputsRaw, index, i, "step")
              rres == RefRunner(st, e, ref)
          IN IF res.threw
             THEN CatchOuter(res, FailKind(e)) /\ RunnerEnds(e) /\ UNCHANGED stepStart
             ELSE StepSucceeds(res.o, res.d, res.rr, res.raw, res.evs, res.index, Scopes(rres.o, rres.d)) /\ RunnerEnds(e)

\* executeOnHost after the probe: match, cross-check, then runOnLxc
FinishProbe ==
  /\ pc = "spawn"
  /\ phase = "probe"
  /\ \E a \in ProbeAttempts :
       /\ LastAttempt(a.exit)
       /\ lastStdout' = a.stdout
       /\ LET e == a.exit
              st == a.stdout
              res == runOnVeHostFinish(st, e, outputs, defaults, outputsRawResult, outputsRaw, index, i, "write-vmids")
              rres == RefRunner(st, e, refTmp)
          IN IF res.threw
             THEN BreakOuter(res, "probe") /\ RunnerEnds(e) /\ UNCHANGED stepStart
             ELSE IF ~HostMatch(Hostname(cmd.execute_on), res.o, registry)
             THEN BreakOuter(res, "hostmatch") /\ RunnerEnds(e) /\ UNCHANGED stepStart
             ELSE /\ outputs' = res.o
                  /\ defaults' = res.d
                  /\ outputsRawResult' = res.rr
                  /\ outputsRaw' = res.raw
                  /\ events' = events \o res.evs
                  /\ index' = res.index
                  /\ phase' = "payload"
                  /\ retryCount' = 0
                  /\ spawnsInStep' = spawnsInStep + 1
                  /\ spawnsInCall' = 1
                  /\ lastExit' = e
                  /\ inFlight' = (inFlight - 1) + 1
                  /\ refTmp' = Scopes(rres.o, rres.d)
                  /\ UNCHANGED <<pc, i, confVars, inputs, msgIndex, finished, ckptVars, ref, refDone,
                                 refValid, spawnedSteps, stopVars, stepStart>>

\* executeOnHost: the payload's runOnLxc returns or throws
FinishPayload ==
  /\ pc = "spawn"
  /\ phase = "payload"
  /\ \E a \in Attempts :
       /\ LastAttempt(a.exit)
       /\ lastStdout' = a.stdout
       /\ LET e == a.exit
              st == a.stdout
              res == runOnVeHostFinish(st, e, outputs, defaults, outputsRawResult, outputsRaw, index, i, "step")
              rres == RefRunner(st, e, refTmp)
          IN IF res.threw
             THEN BreakOuter(res, FailKind(e)) /\ RunnerEnds(e) /\ UNCHANGED stepStart
             ELSE StepSucceeds(res.o, res.d, res.rr, res.raw, res.evs, res.index, Scopes(rres.o, rres.d)) /\ RunnerEnds(e)

\* the end of run() with the finished signal emitted by resumed runs too
ReturnRunSignalsResumed ==
  /\ pc = "exit" \/ (pc = "loop" /\ i >= N)
  /\ LET allSuccessful == rcRestartInfo # None /\ rcRestartInfo.lastSuccessfull = N - 1
     IN /\ events' = IF allSuccessful
                     THEN Append(events, Ev(N, "Completed", 0, NoIndex, "done", "run"))
                     ELSE events
        /\ finished' = IF allSuccessful THEN finished + 1 ELSE finished
  /\ pc' = "done"
  /\ lastExit' = NoExit
  /\ lastStdout' = NoOut
  /\ UNCHANGED <<i, phase, retryCount, confVars, scopeVars, msgIndex, index, ckptVars, refVars,
                 spawnsInStep, spawnsInCall, spawnedSteps, inFlight, stopVars, stepStart>>

\* after the loop: the Completed event, the finished signal with
\* buildVmContext() (which throws without a veContext), the return
ReturnRun ==
  /\ pc = "exit" \/ (pc = "loop" /\ i >= N)
  /\ LET allSuccessful == rcRestartInfo # None /\ rcRestartInfo.lastSuccessfull = N - 1
         signals == allSuccessful /\ restartInfo = None
     IN /\ events' = IF allSuccessful
                     THEN Append(events, Ev(N, "Completed", 0, NoIndex, "done", "run"))
                     ELSE events
        /\ finished' = IF signals /\ veContext # None THEN finished + 1 ELSE finished
        /\ rejected' = (signals /\ veContext = None)
  /\ pc' = "done"
  /\ lastExit' = NoExit
  /\ lastStdout' = NoOut
  /\ UNCHANGED <<i, phase, retryCount, confVars, scopeVars, msgIndex, index, ckptVars, refVars,
                 spawnsInStep, spawnsInCall, spawnedSteps, inFlight, stopKind, stopStep,
                 anyFailed, stepStart>>

Next ==
  \/ RunFresh
  \/ RunResume
  \/ StepSkipped
  \/ StepProperties
  \/ StepPropertiesThrows
  \/ StepScriptReadFails
  \/ StepLxcNoVmId
  \/ StepNoTarget
  \/ DispatchLxc
  \/ DispatchVe
  \/ DispatchHost
  \/ SpawnRetry
  \/ FinishVe
  \/ FinishLxc
  \/ FinishProbe
  \/ FinishPayload
  \/ ReturnRun

Spec == Init /\ [][Next]_vars

\* ------------------------------------------- the resolver on its own
\* texts: a token defined per scope, a token defined nowhere, plain text
Texts == {Tok("x"), Tok("a"), Str1}
ScopeMaps(s) == {EmptyMap, Put(EmptyMap, "x", Val("str", s))}

\* a VeExecution that is constructed over no commands and never run
PipelineIdle ==
  /\ veContext = VeCtx
  /\ commands = <<>>
  /\ ctorInputs = EmptyMap
  /\ ctorDefaults = EmptyMap
  /\ registry = None
  /\ inputs = EmptyMap
  /\ outputs = EmptyMap
  /\ defaults = EmptyMap
  /\ outputsRaw = NoRaw
  /\ outputsRawResult = NoRaw
  /\ pc = "idle"
  /\ i = 0
  /\ phase = "none"
  /\ retryCount = 0
  /\ msgIndex = 0
  /\ index = 0
  /\ events = <<>>
  /\ finished = 0
  /\ rcRestartInfo = None
  /\ restartInfo = None
  /\ resumes = 0
  /\ stepStart = Scopes(EmptyMap, EmptyMap)
  /\ ref = Scopes(EmptyMap, EmptyMap)
  /\ refTmp = Scopes(EmptyMap, EmptyMap)
  /\ refDone = 0
  /\ refValid = TRUE
  /\ ckptScopes = NoSnap
  /\ ckptKind = "none"
  /\ spawnsInStep = 0
  /\ spawnsInCall = 0
  /\ lastExit = NoExit
  /\ lastStdout = NoOut
  /\ inFlight = 0
  /\ spawnedSteps = {}
  /\ stopKind = "none"
  /\ stopStep = -1
  /\ anyFailed = FALSE
  /\ rejected = FALSE

InitResolver ==
  /\ rv \in {Subst(t, c, o, inp, d, "none", Undef) :
               t \in Texts, c \in ScopeMaps("ctx"), o \in ScopeMaps("out"),
               inp \in ScopeMaps("inp"), d \in ScopeMaps("def")}
  /\ cx = NoParse
  /\ AuxIdle
  /\ sshCommand = "ssh"
  /\ PipelineIdle

pipelineVars == <<commands, ctorInputs, ctorDefaults, registry, sshCommand, veContext, scopeVars, ctlVars, evVars,
                  ckptVars, refVars, spawnVars, stopVars, stepStart>>

\* run(), cases "lxc" and "ve": execStr = this.variableResolver.replaceVars(rawStr)
ResolveCommand ==
  /\ rv.op = "none"
  /\ rv' = [rv EXCEPT !.op = "replaceVars",
                      !.result = ReplaceText(rv.text, rv.o, rv.inp, rv.d)]
  /\ UNCHANGED <<pipelineVars, cx, auxVars>>

\* executeOnHost: execCmd for the payload of a host:<name> step
ResolveHostCommand ==
  /\ rv.op = "none"
  /\ rv' = [rv EXCEPT !.op = "host",
                      !.result = HostExecCmd(rv.text, rv.ctx, rv.o, rv.inp, rv.d)]
  /\ UNCHANGED <<pipelineVars, cx, auxVars>>

NextResolver ==
  \/ ResolveCommand
  \/ ResolveHostCommand

SpecResolver == InitResolver /\ [][NextResolver]_vars

\* --------------------------------------------- the output codec on its own
OutLocal == Out(TRUE, "array", <<Rec(FALSE, "a", LocalF, Undef), Rec(FALSE, "x", Undef, Str2)>>)
OutNvLocal == Out(TRUE, "array", <<Rec(TRUE, "b", LocalF, Undef)>>)
CodecStdouts == Stdouts \cup {OutLocal, OutNvLocal, OutUsed("L_match")}
CodecOutputs == {EmptyMap, Put(EmptyMap, "a", Str2), Put(EmptyMap, "b", Str1)}
CodecDefaults == {EmptyMap, Put(EmptyMap, "x", Str1)}

InitCodec ==
  /\ sshCommand \in {"ssh", "sh"}
  /\ cx \in {Parse(st, Scopes(o, d), Scopes(o, d), Scopes(o, d), NoRaw, 0, FALSE) :
               st \in CodecStdouts, o \in CodecOutputs, d \in CodecDefaults}
  /\ rv = NoSubst
  /\ AuxIdle
  /\ PipelineIdle

\* runOnVeHost: this.outputProcessor.parseAndUpdateOutputs(stdout, tmplCommand, uniqueMarker)
ParseStdout ==
  /\ cx.applied < MaxParses
  /\ ~cx.threw
  /\ LET p == parseAndUpdateOutputs(cx.st, cx.now.o, cx.now.d, cx.rr)
         now == Scopes(p.o, p.d)
     IN cx' = [cx EXCEPT !.now = now,
                         !.first = IF cx.applied = 0 THEN now ELSE cx.first,
                         !.rr = p.rr,
                         !.applied = cx.applied + 1,
                         !.threw = p.threw]
  /\ UNCHANGED <<pipelineVars, rv, auxVars>>

NextCodec == ParseStdout

SpecCodec == InitCodec /\ [][NextCodec]_vars

\* ------------------------------------ runs with streamed output chunks
\* the partial message of onStdout (kind "stdout") or onStderr ("stderr")
PartialEv(step, name, kind) ==
  [step |-> step, command |-> name, exitCode |-> -1, index |-> NoIndex,
   partial |-> TRUE, result |-> IF kind = "stdout" THEN "chunk" ELSE "null",
   src |-> "runner", out |-> NoOut,
   stderr |-> IF kind = "stderr" THEN <<"chunk">> ELSE <<>>]

Chunks == Cardinality({p \in 1..Len(events) : events[p].partial})
\* tmplCommand.name of the runner call in flight
CallName == IF phase = "probe" THEN "write-vmids" ELSE "step"

Streams(kind) ==
  /\ Chunks < MaxChunks
  /\ events' = Append(events, PartialEv(i, CallName, kind))
  /\ UNCHANGED <<confVars, scopeVars, ctlVars, msgIndex, index, finished, ckptVars, refVars,
                 spawnVars, stopVars, stepStart>>

\* a stdout chunk handed over after the runner call has ended
OnStdoutLate ==
  /\ pc = "exit"
  /\ i \in spawnedSteps
  /\ Streams("stdout")

\* spawnAsync calls onStdout with a chunk while the session runs
OnStdout ==
  /\ pc = "spawn"
  /\ Streams("stdout")

\* spawnAsync calls onStderr with a chunk while the session runs
OnStderr ==
  /\ pc = "spawn"
  /\ Streams("stderr")

\* fresh runs over "ve" and host:<name> steps
InitStream ==
  /\ Init
  /\ \A k \in 1..Len(commands) : commands[k] \in {CmdVe, CmdHost}

NextStream ==
  \/ RunFresh
  \/ DispatchVe
  \/ DispatchHost
  \/ OnStdout
  \/ OnStderr
  \/ SpawnRetry
  \/ FinishVe
  \/ FinishProbe
  \/ FinishPayload
  \/ ReturnRun

SpecStream == InitStream /\ [][NextStream]_vars

\* ------------------------------------- the "lxc" dispatch on its own
\* a vm_id entry of a scope: absent, a number, a string, a boolean
VmIdMaps == {EmptyMap} \cup {Put(EmptyMap, "vm_id", v) : v \in {Num7, Val("str", "8"), Val("bool", "true")}}

LxcCase(inp, o, d, op, vm, text) ==
  [inp |-> inp, o |-> o, d |-> d, op |-> op, vm |-> vm, text |-> text]

InitLxc ==
  /\ lx \in {LxcCase(inp, o, d, "none", Undef, Undef) :
               inp \in VmIdMaps, o \in VmIdMaps, d \in VmIdMaps}
  /\ duo = None
  /\ mon = None
  /\ ca = None
  /\ rv = NoSubst
  /\ cx = NoParse
  /\ sshCommand = "ssh"
  /\ PipelineIdle

\* run(), case "lxc", for the payload "{{vm_id}}": the payload is resolved, the
\* vm_id is picked, and runOnLxc(vm_id, execStrLxc, cmd) is called unless
\* there is no vm_id
DispatchLxcSession ==
  /\ lx.op = "none"
  /\ LET execStrLxc == ReplaceText(Tok("vm_id"), lx.o, lx.inp, lx.d)
         vm_id == LxcVmId(lx.inp, lx.o)
     IN lx' = [lx EXCEPT !.op = IF Falsy(vm_id) THEN "novmid" ELSE "runOnLxc",
                         !.vm = vm_id,
                         !.text = execStrLxc]
  /\ UNCHANGED <<pipelineVars, rv, cx, duo, mon, ca>>

NextLxc == DispatchLxcSession

SpecLxc == InitLxc /\ [][NextLxc]_vars

\* ------------------------ two runs of one process, their steps interleaved
\* the module-level index (line 26) is one counter for every VeExecution of
\* the process; msgIndex is local to each run(). A run is its steps still to
\* do, the index and exit code of the events it emitted, and, for comparison,
\* those it emits with the counter to itself (solo, soloLog).
Runs == {1, 2}

TwoRunsAttempts ==
  {Attempt(0, OutBlank), Attempt(0, OutArray), Attempt(1, OutBlank), Attempt(1, OutArray),
   Attempt(0, OutBad)}

Logged(idx, code) == [index |-> idx, exitCode |-> code]

IndexLog(evs) == [n \in 1..Len(evs) |-> Logged(evs[n].index, evs[n].exitCode)]

IndexValues(log) == [n \in 1..Len(log) |-> log[n].index]

RunOf(left, msgIdx, log, solo, soloLog) ==
  [left |-> left, msgIndex |-> msgIdx, log |-> log, solo |-> solo, soloLog |-> soloLog]

InitTwoRuns ==
  /\ duo = [index |-> 0, runs |-> [r \in Runs |-> RunOf(MaxSteps, 0, <<>>, 0, <<>>)]]
  /\ lx = None
  /\ mon = None
  /\ ca = None
  /\ rv = NoSubst
  /\ cx = NoParse
  /\ sshCommand = "ssh"
  /\ PipelineIdle

\* one "ve" step of run r: runOnVeHost ends with the attempt a; when it throws,
\* the catch of run() emits its failure event with msgIndex++ and run() ends
StepOfRun(r) ==
  /\ duo.runs[r].left > 0
  /\ \E a \in TwoRunsAttempts :
       LET me == duo.runs[r]
           res == runOnVeHostFinish(a.stdout, a.exit, EmptyMap, EmptyMap, NoRaw, NoRaw,
                                    duo.index, MaxSteps - me.left, "step")
           alone == runOnVeHostFinish(a.stdout, a.exit, EmptyMap, EmptyMap, NoRaw, NoRaw,
                                      me.solo, MaxSteps - me.left, "step")
           caught == IF res.threw THEN <<Logged(me.msgIndex, -1)>> ELSE <<>>
       IN duo' = [index |-> res.index,
                  runs |-> [duo.runs EXCEPT ![r] =
                              RunOf(IF res.threw THEN 0 ELSE me.left - 1,
                                    me.msgIndex + Len(caught),
                                    me.log \o IndexLog(res.evs) \o caught,
                                    alone.index,
                                    me.soloLog \o IndexLog(alone.evs) \o caught)]]
  /\ UNCHANGED <<pipelineVars, rv, cx, lx, mon, ca>>

NextTwoRuns == \E r \in Runs : StepOfRun(r)

SpecTwoRuns == InitTwoRuns /\ [][NextTwoRuns]_vars

\* ----------------------------------- ProcessMonitor: merging polled batches
MaxPolls == 2

\* a polled message: its index (NoIndex on a partial message, which carries
\* none) and its text
Msg(idx, text) == [index |-> idx, text |-> text]

Msgs == {Msg(idx, text) : idx \in {0, NoIndex}, text \in {"a", "b"}}

Group(key, msgs) == [key |-> key, messages |-> msgs]

GroupKeys == {"app1/install", "app2/install"}

\* a response of getExecuteMessages: one group with one or two messages, or
\* two groups (of different application/task) with one message each
Batches ==
  {<<Group(k, <<m1>>)>> : k \in GroupKeys, m1 \in Msgs}
    \cup {<<Group(k, <<m1, m2>>)>> : k \in GroupKeys, m1 \in Msgs, m2 \in Msgs}
    \cup {<<Group(ks[1], <<m1>>), Group(ks[2], <<m2>>)>> :
            ks \in {p \in GroupKeys \X GroupKeys : p[1] # p[2]}, m1 \in Msgs, m2 \in Msgs}

\* this.messages.find(g => same application and task): its position, or 0
FindGroup(groups, key) ==
  IF \E n \in 1..Len(groups) : groups[n].key = key
  THEN CHOOSE n \in 1..Len(groups) :
         /\ groups[n].key = key
         /\ \A q \in 1..(n - 1) : groups[q].key # key
  ELSE 0

\* the indices of the messages of a group, taken once before the loop
ExistingIndices(msgs) == {msgs[n].index : n \in 1..Len(msgs)}

\* the inner loop: push each message whose index is not among existingIndices
RECURSIVE AppendNew(_, _, _)
AppendNew(msgs, new, existingIndices) ==
  IF new = <<>>
  THEN msgs
  ELSE AppendNew(IF Head(new).index \in existingIndices THEN msgs ELSE Append(msgs, Head(new)),
                 Tail(new), existingIndices)

\* the outer loop over the groups of the batch
RECURSIVE MergeGroups(_, _)
MergeGroups(groups, newMsgs) ==
  IF newMsgs = <<>>
  THEN groups
  ELSE LET newGroup == Head(newMsgs)
           at == FindGroup(groups, newGroup.key)
       IN MergeGroups(
            IF at # 0
            THEN [groups EXCEPT ![at].messages =
                    AppendNew(groups[at].messages, newGroup.messages,
                              ExistingIndices(groups[at].messages))]
            ELSE Append(groups, newGroup),
            Tail(newMsgs))

\* defined is FALSE while this.messages is undefined
mergeMessages(defined, messages, newMsgs) ==
  IF ~defined THEN newMsgs ELSE MergeGroups(messages, newMsgs)

InitMonitor ==
  /\ mon = [defined |-> FALSE, messages |-> <<>>, batch |-> <<>>, polls |-> 0]
  /\ lx = None
  /\ duo = None
  /\ ca = None
  /\ rv = NoSubst
  /\ cx = NoParse
  /\ sshCommand = "ssh"
  /\ PipelineIdle

\* a poll answers with a non-empty batch, which is merged
PollMerges ==
  /\ mon.polls < MaxPolls
  /\ \E newMsgs \in Batches :
       mon' = [defined |-> TRUE,
               messages |-> mergeMessages(mon.defined, mon.messages, newMsgs),
               batch |-> newMsgs,
               polls |-> mon.polls + 1]
  /\ UNCHANGED <<pipelineVars, rv, cx, lx, duo, ca>>

NextMonitor == PollMerges

SpecMonitor == InitMonitor /\ [][NextMonitor]_vars

\* ------------------------- CreateApplication: the parameters of a framework
MaxSelections == 3

\* a parameter: its id, whether it is required, its templatename ("" when it
\* has none)
Param(id, required, templatename) ==
  [id |-> id, required |-> required, templatename |-> templatename]

\* this.frameworks, and what getFrameworkParameters answers for each
FrameworkIds == {"A", "B"}

FrameworkParameters(frameworkId) ==
  IF frameworkId = "A"
  THEN <<Param("a_opt", FALSE, ""), Param("a_req", TRUE, "")>>
  ELSE <<Param("b_req", TRUE, "net")>>

\* what the user may pick: a framework of the list, or an id that is not in it
SelectableIds == FrameworkIds \cup {"unknown"}

GroupOf(param) == IF param.templatename = "" THEN "General" ELSE param.templatename

\* groupedParameters: the parameters of each group in the order of the
\* response, then sorted with the required ones first (the sort is stable)
GroupedParameters(params) ==
  LET groups == {GroupOf(params[n]) : n \in 1..Len(params)}
      Of(g) == SelectSeq(params, LAMBDA q : GroupOf(q) = g)
  IN [g \in groups |->
        SelectSeq(Of(g), LAMBDA q : q.required) \o SelectSeq(Of(g), LAMBDA q : ~q.required)]

\* addControl(param.id, ...) for each parameter: a control is added under the
\* id unless the form already has one
AddControls(controls, params) == controls \cup {params[n].id : n \in 1..Len(params)}

Request(frameworkId, state) == [frameworkId |-> frameworkId, state |-> state]

InitCreateApp ==
  /\ ca = [selectedFramework |-> "null", parameters |-> <<>>, groupedParameters |-> EmptyMap,
           controls |-> {}, loadingParameters |-> FALSE, requests |-> <<>>, selections |-> 0]
  /\ lx = None
  /\ duo = None
  /\ mon = None
  /\ rv = NoSubst
  /\ cx = NoParse
  /\ sshCommand = "ssh"
  /\ PipelineIdle

\* onFrameworkSelected, with loadParameters when the id is in the list: the
\* parameters, the form and the groups are emptied and a request is sent
OnFrameworkSelected ==
  /\ ca.selections < MaxSelections
  /\ \E frameworkId \in SelectableIds :
       ca' = IF frameworkId \in FrameworkIds
             THEN [ca EXCEPT !.selectedFramework = frameworkId,
                             !.loadingParameters = TRUE,
                             !.parameters = <<>>,
                             !.controls = {},
                             !.groupedParameters = EmptyMap,
                             !.requests = Append(@, Request(frameworkId, "open")),
                             !.selections = @ + 1]
             ELSE [ca EXCEPT !.selectedFramework = "null",
                             !.selections = @ + 1]
  /\ UNCHANGED <<pipelineVars, rv, cx, lx, duo, mon>>

\* the next handler of a request, whichever framework is selected by then
ParametersArrive ==
  /\ \E n \in 1..Len(ca.requests) :
       /\ ca.requests[n].state = "open"
       /\ LET params == FrameworkParameters(ca.requests[n].frameworkId)
          IN ca' = [ca EXCEPT !.parameters = params,
                              !.groupedParameters = GroupedParameters(params),
                              !.controls = AddControls(@, params),
                              !.loadingParameters = FALSE,
                              !.requests[n].state = "answered"]
  /\ UNCHANGED <<pipelineVars, rv, cx, lx, duo, mon>>

\* the error handler of a request
ParametersFail ==
  /\ \E n \in 1..Len(ca.requests) :
       /\ ca.requests[n].state = "open"
       /\ ca' = [ca EXCEPT !.loadingParameters = FALSE,
                           !.requests[n].state = "failed"]
  /\ UNCHANGED <<pipelineVars, rv, cx, lx, duo, mon>>

NextCreateApp ==
  \/ OnFrameworkSelected
  \/ ParametersArrive
  \/ ParametersFail

SpecCreateApp == InitCreateApp /\ [][NextCreateApp]_vars

\* --------------------- runs in either mode, with or without a veContext
InitContext ==
  /\ InitRun({"ssh", "sh"}, {None, VeCtx})
  /\ \A k \in 1..Len(commands) : commands[k] \in {CmdVe, CmdLxc}

NextContext ==
  \/ RunFresh
  \/ StepLxcNoVmId
  \/ StepNoContext
  \/ DispatchLxc
  \/ DispatchVe
  \/ SpawnRetry
  \/ FinishVe
  \/ FinishLxc
  \/ ReturnRun

SpecContext == InitContext /\ [][NextContext]_vars

TypeOK == pc \in {"idle", "loop", "spawn", "exit", "done"}


\* ------------------------------------------------------------- properties
IsFailure(ev) == ~ev.partial /\ ev.exitCode # 0
EventsOf(command) == {p \in 1..Len(events) : events[p].command = command}
Returned == pc = "done"

\* C1: a fresh run that stopped after step k, resumed from the checkpoint it
\* returned, ends with the outputs and defaults of the uninterrupted run over
\* the same step results, and spawns nothing for a step with index <= k.
ResumeEquivalence ==
  (Returned /\ resumes > 0 /\ refValid /\ refDone = N /\ ~anyFailed
     /\ restartInfo.lastSuccessfull >= 0 /\ restartInfo.lastSuccessfull + 1 < N)
    => /\ outputs = ref.o
       /\ defaults = ref.d
       /\ \A s \in spawnedSteps : s > restartInfo.lastSuccessfull

\* C2: every computed checkpoint lists exactly the pairs of the three scopes
\* as they are when it is computed.
CheckpointIsSnapshot ==
  rcRestartInfo # None
    => /\ PairSet(rcRestartInfo.outputs) = PairSet(MapToPairs(ckptScopes.outputs))
       /\ PairSet(rcRestartInfo.inputs) = PairSet(MapToPairs(ckptScopes.inputs))
       /\ PairSet(rcRestartInfo.defaults) = PairSet(MapToPairs(ckptScopes.defaults))

\* C3: the checkpoint computed when step i fails has lastSuccessful = i - 1 and
\* records outputs and defaults as they were when step i was entered.
FailedStepLeavesScopes ==
  ckptKind = "failure"
    => /\ rcRestartInfo.lastSuccessfull = stopStep - 1
       /\ PairSet(rcRestartInfo.outputs) = PairSet(MapToPairs(stepStart.o))
       /\ PairSet(rcRestartInfo.defaults) = PairSet(MapToPairs(stepStart.d))

\* C4 as stated: at most 3 sessions are spawned per step attempt.
ThreeSpawnsPerStep == spawnsInStep <= 3

\* C4 amended: at most 3 sessions are spawned per runner call (a host:<name>
\* step makes two calls, the probe and the payload); within a call a further
\* spawn follows only an attempt that exited 255 while fewer than 3 attempts
\* were made; a call whose last attempt exits 255 has made 3 attempts and
\* ends the step as a failure.
ThreeSpawnsPerCall ==
  /\ [][spawnsInCall' <= 3]_vars
  /\ [][(spawnsInCall >= 1 /\ spawnsInCall' = spawnsInCall + 1)
          => (lastExit' = 255 /\ spawnsInCall < 3)]_vars
  /\ [][(pc = "spawn" /\ phase' # phase /\ lastExit' = 255)
          => (spawnsInCall = 3 /\ pc' = "exit" /\ anyFailed')]_vars

ThirdAttemptInFlight == pc = "spawn" /\ spawnsInCall = 3 /\ lastExit = 255

\* C5: once a final event reports the failure of a step, no later step is
\* dispatched and no event of a later step is emitted.
StopsAfterFailure ==
  /\ \A p, q \in 1..Len(events) :
       (p < q /\ IsFailure(events[p]) /\ events[q].command # "Completed")
         => events[q].step <= events[p].step
  /\ pc = "spawn" => \A p \in 1..Len(events) : IsFailure(events[p]) => events[p].step >= i

\* C6: a script or command step i whose final attempt exits non-zero aborts
\* the run, which returns a checkpoint with lastSuccessful = i - 1.
ExitFailureCheckpoint ==
  (Returned /\ stopKind = "exit")
    => (rcRestartInfo # None /\ rcRestartInfo.lastSuccessfull = stopStep - 1)

\* C7: a precondition failure of step i makes run() return a checkpoint
\* (never none) with lastSuccessful = i - 1.
PreconditionCheckpoint ==
  (Returned /\ stopKind \in {"novmid", "notarget", "hostmatch"})
    => (rcRestartInfo # None /\ rcRestartInfo.lastSuccessfull = stopStep - 1)

\* C8: a dispatched (script or command) step with target lxc while vm_id is in
\* neither inputs nor outputs, or with a target that is none of ve, lxc,
\* host:<name>, spawns no session, is not retried, emits one fatal event and
\* leaves the loop, so that no later step spawns either.
MissingTarget ==
  /\ Dispatchable
  /\ \/ cmd.execute_on = "lxc" /\ "vm_id" \notin DOMAIN inputs /\ "vm_id" \notin DOMAIN outputs
     \/ cmd.execute_on \notin {"ve", "lxc", "host:h1"}

PreconditionNoSpawn ==
  /\ [][MissingTarget
          => /\ pc' = "exit"
             /\ spawnedSteps' = spawnedSteps
             /\ Len(events') = Len(events) + 1
             /\ IsFailure(events'[Len(events')])
             /\ events'[Len(events')].step = i
             /\ events'[Len(events')].exitCode = -1]_vars
  /\ [][pc = "exit" => (pc' = "done" /\ spawnedSteps' = spawnedSteps)]_vars
  /\ [][stopKind' \in {"novmid", "notarget"} => \A s \in spawnedSteps' : s < stopStep']_vars

StoppedForMissingVmId ==
  /\ Returned
  /\ stopKind = "novmid"
  /\ spawnedSteps # {}
  /\ stopStep \notin spawnedSteps

\* C9: when every step from the start index succeeds, exactly one Completed
\* event is emitted, and it is the last event.
CompletedOnce ==
  (Returned /\ ~anyFailed /\ N > 0 /\ (restartInfo # None => restartInfo.lastSuccessfull + 1 < N))
    => /\ Cardinality(EventsOf("Completed")) = 1
       /\ events[Len(events)].command = "Completed"

\* C10: a fresh run returns no checkpoint exactly when the step list is empty.
NoCheckpointIffEmpty ==
  (Returned /\ restartInfo = None) => ((rcRestartInfo = None) <=> (N = 0))

\* the first step index of the current run
StartIdx == IF restartInfo = None THEN 0 ELSE restartInfo.lastSuccessfull + 1
FinalEventsOf(k) == {p \in 1..Len(events) : events[p].step = k /\ ~events[p].partial}

\* C11: a fresh run of the single step {lxc}, vm_id given in inputs only, the
\* step printing the one id/value record [{"id":"a","value":"1"}] with exit 0,
\* returns a checkpoint with lastSuccessful = 0 whose outputs hold the input
\* vm_id and the printed record.
ScenarioOneCheckpoint ==
  (/\ Returned
   /\ restartInfo = None
   /\ N = 1
   /\ commands[1] = CmdLxc
   /\ "vm_id" \in DOMAIN ctorInputs
   /\ \E p \in FinalEventsOf(0) : events[p].exitCode = 0 /\ events[p].out = OutStatus)
    => /\ rcRestartInfo # None
       /\ rcRestartInfo.lastSuccessfull = 0
       /\ Pair("a", Str1) \in PairSet(rcRestartInfo.outputs)
       /\ Pair("vm_id", ctorInputs["vm_id"]) \in PairSet(rcRestartInfo.outputs)

\* C12: a properties step (single object or array) in which a value resolves to
\* NOT_DEFINED emits one success event (exit code 0) for the step and the loop
\* advances.
NotDefinedStillEmits ==
  [][(StepProperties /\ NotDefinedIds(cmd, outputs, inputs, defaults) # {})
       => /\ Len(events') = Len(events) + 1
          /\ events'[Len(events')].step = i
          /\ events'[Len(events')].exitCode = 0
          /\ i' = i + 1]_vars

\* C13: after a properties step in which the value for id X resolves to
\* NOT_DEFINED, outputs holds no entry for X.
NotDefinedNotInOutputs ==
  [][StepProperties
       => \A id \in NotDefinedIds(cmd, outputs, inputs, defaults) : id \notin DOMAIN outputs']_vars

\* C14: a token resolves to the string form of its value in the first scope
\* that defines it, in the order override context (host execution only),
\* outputs, inputs, defaults; a token defined nowhere becomes the text
\* NOT_DEFINED; the result is always a text.
TokenPrecedence ==
  (rv.op # "none" /\ rv.text.t = "tok")
    => LET n == rv.text.s
           c == IF rv.op = "host" THEN rv.ctx ELSE EmptyMap
       IN /\ rv.result.t = "str"
          /\ n \in DOMAIN c => rv.result.s = c[n].s
          /\ (n \notin DOMAIN c /\ n \in DOMAIN rv.o) => rv.result.s = rv.o[n].s
          /\ (n \notin DOMAIN c /\ n \notin DOMAIN rv.o /\ n \in DOMAIN rv.inp)
               => rv.result.s = rv.inp[n].s
          /\ (n \notin DOMAIN c /\ n \notin DOMAIN rv.o /\ n \notin DOMAIN rv.inp
                /\ n \in DOMAIN rv.d) => rv.result.s = rv.d[n].s
          /\ (n \notin DOMAIN c /\ n \notin DOMAIN rv.o /\ n \notin DOMAIN rv.inp
                /\ n \notin DOMAIN rv.d) => rv.result = NotDefined

OverrideWins ==
  /\ rv.op = "host"
  /\ rv.text = Tok("x")
  /\ \A m \in {rv.ctx, rv.o, rv.inp, rv.d} : "x" \in DOMAIN m
  /\ rv.result = Val("str", "ctx")

\* C15: the index values of the final events of a run strictly increase in
\* emission order (the Completed event carries no index).
IndexStrictlyIncreases ==
  \A p, q \in 1..Len(events) :
    (p < q /\ ~events[p].partial /\ ~events[q].partial
       /\ events[p].index # NoIndex /\ events[q].index # NoIndex)
      => events[p].index < events[q].index

\* C16: every step attempt that is over has produced exactly one final event.
OneFinalEventPerStep ==
  \A k \in 0..(N - 1) :
    (k >= StartIdx /\ (k < i \/ (k = stopStep /\ pc \in {"exit", "done"})))
      => Cardinality(FinalEventsOf(k)) = 1

\* C17: the payload of a host:<hostname> step is in flight only when the probe
\* of this step printed a record with that hostname and the registry entry of
\* that hostname agrees with it in pve and container id.
HostPayloadChecked ==
  phase = "payload"
    => \E p \in FinalEventsOf(i) :
         /\ events[p].command = "write-vmids"
         /\ events[p].exitCode = 0
         /\ events[p].out.shape = "single"
         /\ events[p].out.recs[1].k = "used_vm_ids"
         /\ \E f \in Listing(events[p].out.recs[1].v.s).recs :
              /\ f.hostname = Hostname(cmd.execute_on)
              /\ registry # None
              /\ registry.pve = f.pve
              /\ registry.vmid = f.vmid

TimeoutAborts ==
  /\ [][(pc = "spawn" /\ lastExit' = TimeoutExit)
          => /\ pc' = "exit"
             /\ inFlight' = 0
             /\ spawnedSteps' = spawnedSteps
             /\ anyFailed'
             /\ stopStep' = i
             /\ IsFailure(events'[Len(events')])
             /\ events'[Len(events')].step = i]_vars
  /\ [][lastExit = TimeoutExit => (pc' = "done" /\ spawnedSteps' = spawnedSteps)]_vars

TimedOutStep ==
  /\ pc = "exit"
  /\ lastExit = TimeoutExit
  /\ stopKind = "exit"
  /\ stopStep = i

\* C20: a step whose stdout is malformed fails although it exits 0: a failure
\* event is emitted, outputs and defaults are left as they were, the loop is
\* left and the checkpoint has lastSuccessful = i - 1.
ParseFailureIsFailure ==
  [][(stopKind' = "parse" /\ pc = "spawn")
       => /\ outputs' = outputs
          /\ defaults' = defaults
          /\ pc' = "exit"
          /\ IsFailure(events'[Len(events')])
          /\ events'[Len(events')].step = i
          /\ rcRestartInfo' # None
          /\ rcRestartInfo'.lastSuccessfull = i - 1]_vars

CompletedOnlyCleanRun ==
  Returned
    => /\ (EventsOf("Completed") # {}
            => /\ ~anyFailed
               /\ rcRestartInfo # None
               /\ rcRestartInfo.lastSuccessfull = N - 1)
       /\ (stopKind # "none"
            => /\ EventsOf("Completed") = {}
               /\ rcRestartInfo # None
               /\ rcRestartInfo.lastSuccessfull < N - 1)

\* stdout that parses and validates: one record or an array of records
WellFormed(st) == st.shape \in {"single", "array"}
IsNvArray(st) == st.shape = "array" /\ Len(st.recs) > 0 /\ st.recs[1].nv
ParsedOnce == cx.applied = 1 /\ ~cx.threw /\ WellFormed(cx.st)
ValueKeys(st) == {st.recs[n].k : n \in {m \in 1..Len(st.recs) : st.recs[m].v # Undef}}
DefaultKeys(st) == {st.recs[n].k : n \in {m \in 1..Len(st.recs) : st.recs[m].d # Undef}}
\* m2 is m1 on every key outside ks
SameOutside(m1, m2, ks) ==
  /\ (DOMAIN m2) \ ks = (DOMAIN m1) \ ks
  /\ \A k \in (DOMAIN m1) \ ks : m2[k] = m1[k]

ParseIdempotent ==
  (sshCommand = "ssh" /\ cx.applied >= 2 /\ ~cx.threw /\ WellFormed(cx.st))
    => cx.now = cx.first

ParsedTwice ==
  /\ sshCommand = "ssh"
  /\ cx.applied = 2
  /\ ~cx.threw
  /\ cx.st = OutArray
  /\ cx.first # cx.before
  /\ cx.now = cx.first

\* the event's stderr text contains what the session wrote to stderr
CarriesStderr(ev) == \E n \in 1..Len(ev.stderr) : ev.stderr[n] = "stderr"

\* C24: when the last attempt of a runner call ends with a blank stdout and a
\* non-zero exit code, the step is a failure: the loop is left at that step,
\* at least one event is emitted for it, and every event emitted for it is a
\* failure event that carries the captured stderr.
EmptyFailureReported ==
  [][(pc = "spawn" /\ pc' # "spawn" /\ lastStdout' = OutBlank /\ lastExit' \notin {0, NoExit})
       => /\ pc' = "exit"
          /\ anyFailed'
          /\ stopStep' = i
          /\ Len(events') > Len(events)
          /\ \A p \in (Len(events) + 1)..Len(events') :
               /\ IsFailure(events'[p])
               /\ events'[p].step = i
               /\ CarriesStderr(events'[p])]_vars

EmptyFailureSeen ==
  /\ pc = "exit"
  /\ lastStdout = OutBlank
  /\ lastExit = 1
  /\ Len(events) >= 2
  /\ events[Len(events) - 1].result = "ERROR"
  /\ events[Len(events) - 1].stderr = Captured
  /\ events[Len(events)].stderr = ExitMessage

\* C25: when the last attempt of a step's runner call ends with exit code 0
\* and a stdout that is empty once the marker and what precedes it are
\* stripped, the step succeeds, outputs and defaults are unchanged, and the
\* final event of the step carries the result "OK".
EmptyOutputIsOk ==
  [][(pc = "spawn" /\ phase \in {"ve", "lxc", "payload"} /\ pc' # "spawn"
        /\ lastStdout'.shape = "empty" /\ lastExit' = 0)
       => /\ pc' = "loop"
          /\ i' = i + 1
          /\ outputs' = outputs
          /\ defaults' = defaults
          /\ Len(events') = Len(events) + 1
          /\ events'[Len(events')].exitCode = 0
          /\ events'[Len(events')].result = "OK"]_vars

\* the map m holds exactly the entries of the checkpoint list
HoldsExactly(m, list) ==
  /\ DOMAIN m = {e.name : e \in PairSet(list)}
  /\ \A e \in PairSet(list) : m[e.name] = e.value

\* C27: run(checkpoint) starts with inputs, outputs and defaults holding
\* exactly the checkpoint's entries, whatever the object was constructed
\* with, and with the loop at lastSuccessful + 1; during the resumed run no
\* step with an index <= lastSuccessful spawns a session or emits an event.
ResumeLoadsCheckpoint ==
  /\ [][resumes' = resumes + 1
          => /\ HoldsExactly(inputs', rcRestartInfo.inputs)
             /\ HoldsExactly(outputs', rcRestartInfo.outputs)
             /\ HoldsExactly(defaults', rcRestartInfo.defaults)
             /\ restartInfo' = rcRestartInfo
             /\ i' = rcRestartInfo.lastSuccessfull + 1
             /\ pc' = "loop"
             /\ events' = <<>>
             /\ spawnedSteps' = {}]_vars
  /\ [](restartInfo # None
          => /\ i > restartInfo.lastSuccessfull
             /\ \A p \in 1..Len(events) : events[p].step > restartInfo.lastSuccessfull
             /\ \A k \in spawnedSteps : k > restartInfo.lastSuccessfull)

ResumedPastFirstStep ==
  /\ restartInfo # None
  /\ restartInfo.lastSuccessfull = 0
  /\ N = 2
  /\ restartInfo.outputs # <<>>
  /\ Returned
  /\ spawnedSteps = {1}
  /\ events # <<>>

\* C28: a properties step spawns no session; it sets outputs[id] for every
\* entry whose value is a primitive, emits exactly one event, a success event
\* of that step, and the loop advances to the next step.
PropertiesStepLocal ==
  [][(AtStep /\ ~cmd.skipped /\ cmd.kind = "properties")
       => /\ spawnedSteps' = spawnedSteps
          /\ inFlight' = inFlight
          /\ pc' = "loop"
          /\ i' = i + 1
          /\ \A n \in 1..Len(cmd.entries) :
               cmd.entries[n].value.t \in {"str", "num", "bool"}
                 => /\ cmd.entries[n].id \in DOMAIN outputs'
                    /\ outputs'[cmd.entries[n].id] = cmd.entries[n].value
          /\ Len(events') = Len(events) + 1
          /\ events'[Len(events')].step = i
          /\ events'[Len(events')].exitCode = 0]_vars

\* C29: a skipped step opens no session and leaves inputs, outputs and
\* defaults as they are; exactly one event is emitted for it, a final event
\* with exit code 0, and the loop goes on to the next step.
SkippedStepEffect ==
  [][(AtStep /\ cmd.skipped)
       => /\ spawnedSteps' = spawnedSteps
          /\ inFlight' = inFlight
          /\ inputs' = inputs
          /\ outputs' = outputs
          /\ defaults' = defaults
          /\ Len(events') = Len(events) + 1
          /\ events'[Len(events')].step = i
          /\ events'[Len(events')].exitCode = 0
          /\ ~events'[Len(events')].partial
          /\ pc' = "loop"
          /\ i' = i + 1]_vars

SkippedThenNext ==
  /\ N = 2
  /\ commands[1].skipped
  /\ pc = "spawn"
  /\ i = 1
  /\ Len(events) = 1
  /\ events[1].step = 0
  /\ events[1].exitCode = 0
  /\ spawnedSteps = {1}

CheckpointCarriesVmId ==
  (rcRestartInfo # None /\ ckptKind # "none")
    => LET known == LxcVmId(ckptScopes.inputs, ckptScopes.outputs)
       IN known # Undef => rcRestartInfo.vm_id = ParseInt(known)

\* C33: no step of a run changes inputs, and the inputs of every computed
\* checkpoint are the caller's inputs in a fresh run and the inputs of the
\* supplied checkpoint in a resumed run.
InputsNeverChange ==
  /\ [][resumes' = resumes => inputs' = inputs]_vars
  /\ [](rcRestartInfo # None
          => IF restartInfo = None
             THEN HoldsExactly(ctorInputs, rcRestartInfo.inputs)
             ELSE PairSet(rcRestartInfo.inputs) = PairSet(restartInfo.inputs))

VmIdPrintedInputsKept ==
  /\ Returned
  /\ restartInfo = None
  /\ ctorInputs = EmptyMap
  /\ rcRestartInfo # None
  /\ rcRestartInfo.inputs = <<>>
  /\ "vm_id" \in DOMAIN outputs
  /\ anyFailed

\* C37: the lastSuccessful of every computed checkpoint of a run over N steps
\* lies in -1 .. N-1, and in a run resumed from checkpoint c it is never
\* below c.lastSuccessful.
CheckpointInRange ==
  rcRestartInfo # None
    => /\ rcRestartInfo.lastSuccessfull \in -1..(N - 1)
       /\ restartInfo # None
            => rcRestartInfo.lastSuccessfull >= restartInfo.lastSuccessfull

ResumeFailedAtOnce ==
  /\ Returned
  /\ restartInfo # None
  /\ rcRestartInfo # None
  /\ restartInfo.lastSuccessfull = 0
  /\ rcRestartInfo.lastSuccessfull = 0
  /\ ckptKind = "failure"
  /\ stopStep = 1

\* C34: the promise of run() is never rejected.
RunNeverRejects == ~rejected

\* C35: when an "lxc" step with the payload "{{vm_id}}" calls the
\* in-container runner, the container id it hands over, as the text
\* String(vm_id), is the text the payload was resolved to.
SessionIdIsTokenValue ==
  lx.op = "runOnLxc" => lx.text.s = lx.vm.s

\* C36: with the steps of two runs interleaved, the index values on the events
\* of each run are those the run emits when it has the counter to itself.
RunsDoNotInterfere ==
  duo # None =>
    \A r \in Runs : IndexValues(duo.runs[r].log) = IndexValues(duo.runs[r].soloLog)

\* C38: after a polled batch is merged, every message of the batch is present
\* in the group of its application and task, partial messages and messages
\* that share their index with another message of the group included.
MergeKeepsEveryMessage ==
  (mon # None /\ mon.polls > 0) =>
    \A g \in 1..Len(mon.batch) :
      LET at == FindGroup(mon.messages, mon.batch[g].key)
      IN /\ at # 0
         /\ \A n \in 1..Len(mon.batch[g].messages) :
              \E q \in 1..Len(mon.messages[at].messages) :
                mon.messages[at].messages[q] = mon.batch[g].messages[n]

\* C39: when framework A and then framework B were selected and both requests
\* were answered, parameters, groupedParameters and the controls of the form
\* are those of framework B and loadingParameters is false.
LastSelectionWins ==
  (ca # None /\ ca.requests = <<Request("A", "answered"), Request("B", "answered")>>) =>
    /\ ca.parameters = FrameworkParameters("B")
    /\ ca.groupedParameters = GroupedParameters(FrameworkParameters("B"))
    /\ ca.controls = AddControls({}, FrameworkParameters("B"))
    /\ ca.loadingParameters = FALSE

====
